---- MODULE Spec2Model ----
(***************************************************************************)
(* A model of the extraction / reconciliation / flow-graph pipeline of     *)
(* 10k-storytelling: extract_financials.py (call_ollama,                   *)
(* extract_financial_buckets_from_summary, analyze_financials) and         *)
(* visualize_sankey.py (plot_sankey).                                      *)
(*                                                                         *)
(* Values are exact rationals [t |-> "num", n, d] (n/d in lowest terms):   *)
(* Python's floats are modelled without rounding error.  A JSON value that *)
(* is not a number is [t |-> "str"], an absent key is [t |-> "missing"].   *)
(***************************************************************************)
EXTENDS Integers, Sequences, FiniteSets, TLC

VARIABLES pc, summary_text, raw, buckets, error, usedFallback, breakdownCalls,
          breakdownOutcome, preBreakdown, preRescale, firstOut, run,
          bucketFile, graph,
          status, log_queue, result, job_pc, stdout, returncode,
          delivered, stream_open, results_reply

\* the variables of the extraction and of plot_sankey
pipelineVars ==
    <<pc, summary_text, raw, buckets, error, usedFallback, breakdownCalls,
      breakdownOutcome, preBreakdown, preRescale, firstOut, run,
      bucketFile, graph>>

\* the variables of a job of the web service and of its client
jobVars ==
    <<status, log_queue, result, job_pc, stdout, returncode,
      delivered, stream_open, results_reply>>

vars == <<pipelineVars, jobVars>>

----------------------------------------------------------------------------
(* Rational arithmetic                                                     *)

Abs(x) == IF x < 0 THEN -x ELSE x

RECURSIVE Gcd(_, _)
Gcd(a, b) == IF b = 0 THEN a ELSE Gcd(b, a % b)

\* n/d in lowest terms, d > 0
Rat(n, d) ==
    LET g == Gcd(Abs(n), Abs(d))
        s == IF d < 0 THEN -1 ELSE 1
    IN  [t |-> "num", n |-> (s * n) \div g, d |-> (s * d) \div g]

Num(n) == [t |-> "num", n |-> n, d |-> 1]
NotANumber == [t |-> "str", n |-> 0, d |-> 1]
NoValue == [t |-> "missing", n |-> 0, d |-> 1]

IsNum(v) == v.t = "num"
\* sums and comparisons go through the least common denominator, which
\* keeps the intermediate products small
RAdd(a, b) ==
    LET g == Gcd(a.d, b.d)
    IN  Rat(a.n * (b.d \div g) + b.n * (a.d \div g), (a.d \div g) * b.d)
RNeg(a) == [a EXCEPT !.n = -a.n]
RSub(a, b) == RAdd(a, RNeg(b))
RMul(a, b) ==
    LET g1 == Gcd(Abs(a.n), b.d)
        g2 == Gcd(Abs(b.n), a.d)
    IN  Rat((a.n \div g1) * (b.n \div g2), (a.d \div g2) * (b.d \div g1))
RDiv(a, b) == RMul(a, Rat(b.d, b.n))
RAbs(a) == [a EXCEPT !.n = Abs(a.n)]
RLess(a, b) ==
    LET g == Gcd(a.d, b.d)
    IN  a.n * (b.d \div g) < b.n * (a.d \div g)
RLeq(a, b) == ~RLess(b, a)
RPos(a) == a.n > 0
RZero(a) == a.n = 0

----------------------------------------------------------------------------
(* The taxonomy and the JSON items                                         *)

Taxonomy == <<"Products", "Services", "Revenue", "Cost of Revenue",
              "Gross Profit", "Operating Expenses", "Operating Income",
              "Interest Expense", "Interest Income", "Other Income/Expense",
              "Taxes", "Net Income">>

TaxonomyNames == {Taxonomy[i] : i \in 1..Len(Taxonomy)}

NoKey == "<no key>"

\* a JSON object {"bucket": b, "value": v}; either key may be absent
Obj(b, v) == [kind |-> "object", bucket |-> b, value |-> v]
\* a JSON array element that is not an object (a number, a string, null)
Scalar == [kind |-> "scalar", bucket |-> NoKey, value |-> NoValue]

----------------------------------------------------------------------------
(* The summary text, seen through re.search: for every taxonomy key, the   *)
(* outcome of each of its patterns in list order.  A match carries the     *)
(* captured literal (group 1, characters) and the captured unit (group 2,  *)
(* "" when the group did not take part).                                   *)

NoMatch == [matched |-> FALSE, lit |-> <<>>, unit |-> ""]
Match(lit, unit) == [matched |-> TRUE, lit |-> lit, unit |-> unit]

\* the number of patterns listed for a key (patterns dict)
NumPatterns(key) ==
    IF key \in {"Operating Income", "Net Income"} THEN 3 ELSE 2

DigitVal(c) ==
    CASE c = "0" -> 0 [] c = "1" -> 1 [] c = "2" -> 2 [] c = "3" -> 3
      [] c = "4" -> 4 [] c = "5" -> 5 [] c = "6" -> 6 [] c = "7" -> 7
      [] c = "8" -> 8 [] c = "9" -> 9

RECURSIVE DigitsToNat(_)
DigitsToNat(ds) ==
    IF ds = <<>> THEN 0
    ELSE 10 * DigitsToNat(SubSeq(ds, 1, Len(ds) - 1)) + DigitVal(ds[Len(ds)])

RECURSIVE Pow10(_)
Pow10(k) == IF k = 0 THEN 1 ELSE 10 * Pow10(k - 1)

NotComma(c) == c # ","

\* m.group(1).replace(',', '')
StripCommas(lit) == SelectSeq(lit, NotComma)

\* float(num_str): ValueError on the empty string, else the decimal value
ParseFloat(num_str) ==
    IF num_str = <<>> THEN [ok |-> FALSE, val |-> Num(0)]
    ELSE LET dots == {i \in 1..Len(num_str) : num_str[i] = "."}
             dot == IF dots = {} THEN Len(num_str) + 1
                    ELSE CHOOSE i \in dots : TRUE
             ip == SubSeq(num_str, 1, dot - 1)
             fp == SubSeq(num_str, dot + 1, Len(num_str))
         IN  [ok |-> TRUE,
              val |-> Rat(DigitsToNat(ip) * Pow10(Len(fp)) + DigitsToNat(fp),
                          Pow10(Len(fp)))]

\* Lower left out: the captured unit is looked up as it was written
LowerOmitted(u) == u

\* str.lower() on the unit tokens the pattern can capture under IGNORECASE
Lower(u) ==
    CASE u \in {"million", "Million", "MILLION", "mIlLiOn"} -> "million"
      [] u \in {"billion", "Billion", "BILLION", "bIlLiOn"} -> "billion"
      [] u \in {"m", "M"} -> "m"
      [] u \in {"b", "B"} -> "b"
      [] OTHER -> u

\* unit_multiplier.get(unit, 1.0)
UnitMultiplier(unit) ==
    CASE unit \in {"million", "m", "M"} -> Num(1)
      [] unit \in {"billion", "b", "B"} -> Num(1000)
      [] OTHER -> Num(1)

\* one pattern's contribution: the parsed value in millions, or a failure
ParseMatch(m) ==
    LET p == ParseFloat(StripCommas(m.lit))
    IN  IF p.ok THEN [ok |-> TRUE, val |-> RMul(p.val, UnitMultiplier(Lower(m.unit)))]
        ELSE [ok |-> FALSE, val |-> Num(0)]

\* FirstParsed that keeps trying patterns after a match parsed to 0.0
RECURSIVE FirstParsedSkipsZero(_)
FirstParsedSkipsZero(outs) ==
    IF outs = <<>> THEN Num(0)
    ELSE IF Head(outs).matched /\ ParseMatch(Head(outs)).ok
            /\ ~RZero(ParseMatch(Head(outs)).val)
         THEN ParseMatch(Head(outs)).val
         ELSE FirstParsedSkipsZero(Tail(outs))

\* the inner loop over a key's pattern list: the first pattern that matches
\* and parses decides (break); a ValueError moves on (continue); val stays
\* 0.0 when none does
RECURSIVE FirstParsed(_)
FirstParsed(outs) ==
    IF outs = <<>> THEN Num(0)
    ELSE IF Head(outs).matched /\ ParseMatch(Head(outs)).ok
         THEN ParseMatch(Head(outs)).val
         ELSE FirstParsed(Tail(outs))

\* RegexFallback that keeps, for a key the text gives nothing for, a number
\* the primary answer held under that key
RegexFallbackKeepsDecoded(text) ==
    [i \in 1..Len(Taxonomy) |->
        LET v == FirstParsed(text[Taxonomy[i]])
            d == IF raw.shape = "array" THEN raw.items ELSE <<>>
            hits == {j \in 1..Len(d) :
                        d[j].bucket = Taxonomy[i] /\ d[j].value.t = "num"}
        IN  Obj(Taxonomy[i],
                IF v.n = 0 /\ hits # {} THEN d[CHOOSE j \in hits : TRUE].value
                ELSE v)]

\* the regex fallback: one entry per key of the patterns dict, in dict order
RegexFallback(text) ==
    [i \in 1..Len(Taxonomy) |-> Obj(Taxonomy[i], FirstParsed(text[Taxonomy[i]]))]

----------------------------------------------------------------------------
(* extract_financial_buckets_from_summary: the primary (LLM) path          *)

\* json.loads on response[start:end] after strip_markdown: the decoded list,
\* or [] when no bracket pair is found or the decoder raises
Decode(resp) == IF resp.shape = "array" THEN resp.items ELSE <<>>

\* isinstance(item.get('value', 0), (int, float)): an absent key reads as 0
IsNumericItem(item) == item.value.t \in {"num", "missing"}

\* valid_buckets = all(isinstance(item.get('value', 0), ...) for item in
\* buckets): the scan stops at the first item that is not numeric, and an
\* element without .get (not an object) met before that raises
ValidScan(b) ==
    LET bad == {i \in 1..Len(b) : b[i].kind = "scalar" \/ ~IsNumericItem(b[i])}
        first == IF bad = {} THEN 0
                 ELSE CHOOSE i \in bad : \A j \in bad : i <= j
    IN  IF first = 0 THEN "valid"
        ELSE IF b[first].kind = "scalar" THEN "raise" ELSE "invalid"

\* all(item.get('value', 0) == 0 for item in buckets)
AllZero(b) ==
    \A i \in 1..Len(b) : b[i].value.t = "missing"
                         \/ (b[i].value.t = "num" /\ RZero(b[i].value))

\* the condition guarding the regex fallback
NeedsFallback(b) == b = <<>> \/ ValidScan(b) # "valid" \/ AllZero(b)

----------------------------------------------------------------------------
(* extract_financial_buckets_from_summary: reconciliation                  *)

\* next((i for i, item in enumerate(buckets) if item["bucket"] == name), -1)
\* as a 1-based position, 0 standing for -1
FindIdx(b, name) ==
    LET hits == {i \in 1..Len(b) : b[i].bucket = name}
    IN  IF hits = {} THEN 0 ELSE CHOOSE i \in hits : \A j \in hits : i <= j

\* item["bucket"] raises KeyError on an item met before the name is found
FindRaises(b, name) ==
    \E j \in 1..Len(b) :
        /\ b[j].bucket = NoKey
        /\ (FindIdx(b, name) = 0 \/ j < FindIdx(b, name))

\* buckets[idx]: Python reads index -1 as the last element
Pos(b, idx) == IF idx = 0 THEN Len(b) ELSE idx

ProductsPos(b) == Pos(b, FindIdx(b, "Products"))
ServicesPos(b) == Pos(b, FindIdx(b, "Services"))
RevenuePos(b)  == Pos(b, FindIdx(b, "Revenue"))

ValueAt(b, p) == b[p].value
\* buckets[idx]["value"] raises KeyError when the key is absent
ValueRaises(b, p) == b[p].value.t = "missing"

\* the condition of the secondary breakdown request raises
BreakdownCondRaises(b) ==
    /\ FindIdx(b, "Revenue") # 0
    /\ \/ ValueRaises(b, ProductsPos(b))
       \/ (~RZero(ValueAt(b, ProductsPos(b))) /\ ValueRaises(b, ServicesPos(b)))
       \/ /\ ~ValueRaises(b, ProductsPos(b))
          /\ (RZero(ValueAt(b, ProductsPos(b)))
              \/ (~ValueRaises(b, ServicesPos(b)) /\ RZero(ValueAt(b, ServicesPos(b)))))
          /\ ValueRaises(b, RevenuePos(b))

\* revenue_idx != -1 and (Products == 0 or Services == 0) and Revenue > 0
NeedsBreakdown(b) ==
    /\ FindIdx(b, "Revenue") # 0
    /\ ~BreakdownCondRaises(b)
    /\ (RZero(ValueAt(b, ProductsPos(b))) \/ RZero(ValueAt(b, ServicesPos(b))))
    /\ RPos(ValueAt(b, RevenuePos(b)))

\* item["bucket"], item["value"] > 0 on one element of the breakdown answer:
\* TypeError on a non-object, KeyError on an absent key, TypeError on a
\* value that does not compare with 0
ItemRaises(item) ==
    \/ item.kind = "scalar"
    \/ item.bucket = NoKey
    \/ (item.bucket \in {"Products", "Services"} /\ item.value.t # "num")

SetValue(b, p, v) == [b EXCEPT ![p].value = v]

\* the body of the loop over breakdown_json for one element
ApplyItem(b, item) ==
    IF item.bucket = "Products" /\ RPos(item.value)
    THEN SetValue(b, ProductsPos(b), item.value)
    ELSE IF item.bucket = "Services" /\ RPos(item.value)
         THEN SetValue(b, ServicesPos(b), item.value)
         ELSE b

\* for item in breakdown_json: ... inside try/except Exception: the loop
\* ends at the first element that raises, earlier assignments stay
RECURSIVE ApplyItems(_, _)
ApplyItems(b, items) ==
    IF items = <<>> THEN b
    ELSE IF ItemRaises(Head(items)) THEN b
         ELSE ApplyItems(ApplyItem(b, Head(items)), Tail(items))

\* ApplyBreakdown that, when the call fails, splits Revenue evenly between
\* Products and Services instead of leaving the list alone
ApplyBreakdownSplitsOnFailure(b, ans) ==
    IF ans.status = "fail"
    THEN LET half == RDiv(ValueAt(b, RevenuePos(b)), Num(2))
         IN  SetValue(SetValue(b, ProductsPos(b), half), ServicesPos(b), half)
    ELSE IF ans.shape # "array" THEN b
         ELSE ApplyItems(b, ans.items)

\* the try block of the secondary breakdown request, given the service's
\* answer: a failed call, an undecodable answer and an answer without
\* brackets all leave buckets as they are
ApplyBreakdown(b, ans) ==
    IF ans.status = "fail" THEN b
    ELSE IF ans.shape # "array" THEN b
         ELSE ApplyItems(b, ans.items)

\* which way the try block went: the except branch after a failed call, an
\* undecodable answer or an element that raised; no bracket pair found; or
\* the loop ran to its end ("Enhanced Products/Services breakdown")
BreakdownOutcome(ans) ==
    IF ans.status = "fail" THEN "call failed"
    ELSE IF ans.shape = "malformed" THEN "undecodable"
    ELSE IF ans.shape = "nobrackets" THEN "no brackets"
    ELSE IF \E i \in 1..Len(ans.items) : ItemRaises(ans.items[i])
         THEN "element raised"
         ELSE "enhanced"

\* the final validation raises KeyError on an absent value
FinalRaises(b) ==
    \/ ValueRaises(b, ProductsPos(b))
    \/ (RPos(ValueAt(b, ProductsPos(b))) /\ ValueRaises(b, ServicesPos(b)))
    \/ /\ ~ValueRaises(b, ProductsPos(b)) /\ ~ValueRaises(b, ServicesPos(b))
       /\ RPos(ValueAt(b, ProductsPos(b))) /\ RPos(ValueAt(b, ServicesPos(b)))
       /\ ValueRaises(b, RevenuePos(b))

\* 0.01 in  abs(sum_parts - revenue_val) > 0.01 * revenue_val
Tolerance == Rat(1, 100)

\* Deviates with >= in place of >: a sum exactly 1% off is rescaled too
DeviatesAtBoundary(p, s, r) ==
    /\ RLeq(RMul(Tolerance, r), RAbs(RSub(RAdd(p, s), r)))
    /\ RPos(r)

\* abs(sum_parts - revenue_val) > 0.01 * revenue_val and revenue_val > 0
Deviates(p, s, r) ==
    /\ RLess(RMul(Tolerance, r), RAbs(RSub(RAdd(p, s), r)))
    /\ RPos(r)

\* Ratio with the quotient inverted: sum_parts / revenue_val
RatioInverted(p, s, r) == RDiv(RAdd(p, s), r)

\* ratio = revenue_val / sum_parts
Ratio(p, s, r) == RDiv(r, RAdd(p, s))

\* Rescale without the second assignment: only Products is multiplied
RescaleProductsOnly(b) ==
    LET pp == ProductsPos(b)
        p == ValueAt(b, pp)
        s == ValueAt(b, ServicesPos(b))
        r == ValueAt(b, RevenuePos(b))
    IN  IF RPos(p) /\ RPos(s) /\ Deviates(p, s, r)
        THEN SetValue(b, pp, RMul(p, Ratio(p, s, r)))
        ELSE b

\* the final validation: Products and Services are both multiplied by
\* ratio, one assignment after the other
Rescale(b) ==
    LET pp == ProductsPos(b)
        sp == ServicesPos(b)
        p == ValueAt(b, pp)
        s == ValueAt(b, sp)
        r == ValueAt(b, RevenuePos(b))
    IN  IF RPos(p) /\ RPos(s) /\ Deviates(p, s, r)
        THEN LET ratio == Ratio(p, s, r)
                 b1 == SetValue(b, pp, RMul(ValueAt(b, pp), ratio))
             IN  SetValue(b1, sp, RMul(ValueAt(b1, sp), ratio))
        ELSE b

----------------------------------------------------------------------------
(* The inputs the model draws from                                         *)

\* the longest breakdown answer (elements of the decoded array)
MaxBreakdownItems == 2

\* the most progress lines the pipeline prints before its summary
MaxLogLines == 2

L0    == <<"0">>
L1    == <<"1">>
L5    == <<"5">>
L15   == <<"1", "5">>
L20   == <<"2", "0">>
L40   == <<"4", "0">>
L100  == <<"1", "0", "0">>
L200  == <<"2", "0", "0">>
L400  == <<"4", "0", "0">>
L500  == <<"5", "0", "0">>
L600  == <<"6", "0", "0">>
L0p6  == <<"0", ".", "6">>
LComma == <<",">>

ProductsMentions ==
    { <<NoMatch, NoMatch>>,
      <<Match(L600, ""), NoMatch>>,
      <<Match(LComma, ""), Match(L0p6, "Billion")>> }

ServicesMentions ==
    { <<Match(L500, "million"), NoMatch>>,
      <<Match(L0, ""), Match(L400, "")>> }

RevenueMentions ==
    { <<NoMatch, NoMatch>>,
      <<NoMatch, Match(L1, "B")>> }

\* the other nine keys: nothing in the text, or one statement of each
RestNone == [k \in TaxonomyNames |-> [i \in 1..NumPatterns(k) |-> NoMatch]]

RestStated ==
    [k \in TaxonomyNames |->
        CASE k = "Cost of Revenue"      -> <<Match(L600, "M"), NoMatch>>
          [] k = "Gross Profit"         -> <<NoMatch, Match(L400, "")>>
          [] k = "Operating Expenses"   -> <<Match(L200, ""), NoMatch>>
          [] k = "Operating Income"     -> <<NoMatch, Match(L200, ""), NoMatch>>
          [] k = "Interest Expense"     -> <<Match(L15, ""), NoMatch>>
          [] k = "Interest Income"      -> <<Match(L5, "m"), NoMatch>>
          [] k = "Other Income/Expense" -> <<Match(L20, ""), NoMatch>>
          [] k = "Taxes"                -> <<Match(L40, ""), NoMatch>>
          [] k = "Net Income"           -> <<NoMatch, NoMatch, Match(L100, "million")>>
          [] OTHER                      -> <<NoMatch, NoMatch>>]

Texts ==
    { [k \in TaxonomyNames |->
          CASE k = "Products" -> pm
            [] k = "Services" -> sm
            [] k = "Revenue"  -> rm
            [] OTHER          -> rest[k]] :
      pm \in ProductsMentions, sm \in ServicesMentions,
      rm \in RevenueMentions, rest \in {RestNone, RestStated} }

\* what call_ollama can come back with
Failure == [status |-> "fail", shape |-> "none", items |-> <<>>]
NoBrackets == [status |-> "ok", shape |-> "nobrackets", items |-> <<>>]
Malformed == [status |-> "ok", shape |-> "malformed", items |-> <<>>]
Array(items) == [status |-> "ok", shape |-> "array", items |-> items]

ProductsParts == { <<>>, <<Obj("Products", Num(0))>>, <<Obj("Products", Num(600))>> }
ServicesParts == { <<>>, <<Obj("Services", Num(0))>>, <<Obj("Services", Num(410))>>,
                   <<Obj("Services", Num(500))>> }
RevenueParts  == { <<>>, <<Obj("Revenue", Num(0))>>, <<Obj("Revenue", Num(1000))>> }
TailParts ==
    { <<>>,
      <<Obj("Net Income", Num(100))>>,
      <<Obj("Goodwill", Num(50))>>,
      <<Scalar>>,
      <<Obj(NoKey, Num(5))>>,
      <<Obj("Net Income", NoValue)>>,
      <<Obj("Net Income", NotANumber)>>,
      <<Obj("Net Income", NotANumber), Scalar>> }

\* the list of the first worked example, in its order
ExampleOneBuckets ==
    <<Obj("Revenue", Num(1000)), Obj("Products", Num(0)), Obj("Services", Num(0))>>

PrimaryArrays ==
    { pp \o sp \o rp \o tp : pp \in ProductsParts, sp \in ServicesParts,
                             rp \in RevenueParts, tp \in TailParts }
    \cup {ExampleOneBuckets}

PrimaryResponses ==
    {Failure, NoBrackets, Malformed} \cup {Array(a) : a \in PrimaryArrays}

BreakdownItems ==
    { Obj("Products", Num(700)), Obj("Products", Num(0)),
      Obj("Services", Num(300)), Obj("Services", NoValue), Scalar }

BreakdownAnswers ==
    {Failure, NoBrackets, Malformed}
    \cup {Array(a) : a \in UNION {[1..n -> BreakdownItems] : n \in 0..MaxBreakdownItems}}

\* bucket lists handed to a reconciliation on its own
ReconInputs ==
    { pp \o sp \o rp \o tp : pp \in ProductsParts, sp \in ServicesParts,
                             rp \in RevenueParts,
                             tp \in {<<>>, <<Obj("Net Income", Num(100))>>} }
    \ {<<>>}

NoFile == [written |-> FALSE, records |-> <<>>]
Written(b) == [written |-> TRUE, records |-> b]
NoGraph == [nodes |-> <<>>, value |-> <<>>, derived |-> {}, flows |-> <<>>,
            link_source |-> <<>>, link_target |-> <<>>, link_value |-> <<>>,
            node_x |-> <<>>, node_y |-> <<>>]

----------------------------------------------------------------------------
(* visualize_sankey.plot_sankey                                            *)

\* 1e-9, the minimum display size, as 1 / EpsilonDenominator
EpsilonDenominator == 1000000000
Epsilon == [t |-> "num", n |-> 1, d |-> EpsilonDenominator]

\* a > 1e-9 for a >= 0: a.d < a.n * 10^9, decided without the product
AboveEpsilon(a) == a.n > 0 /\ (a.d \div a.n) < EpsilonDenominator

\* isinstance(name, str) and isinstance(val, (int, float)) and not isnan(val)
IsValidItem(item) == item.bucket # NoKey /\ item.value.t = "num"

\* valid_items after the loading loop: the names of the valid records, in
\* file order, repeated when the file repeats them
RECURSIVE LoadedItems(_)
LoadedItems(file) ==
    IF file = <<>> THEN <<>>
    ELSE (IF IsValidItem(Head(file)) THEN <<Head(file).bucket>> ELSE <<>>)
         \o LoadedItems(Tail(file))

\* name in bucket_values, before the derived items are merged in
Reported(file, name) ==
    \E i \in 1..Len(file) : IsValidItem(file[i]) /\ file[i].bucket = name

\* bucket_values[name]: a later record of the same name overwrites
ReportedValue(file, name) ==
    LET hits == {i \in 1..Len(file) : IsValidItem(file[i]) /\ file[i].bucket = name}
    IN  file[CHOOSE i \in hits : \A j \in hits : j <= i].value

\* bucket_values.get(name) with absent terms contributing nothing
ValueOrZero(file, name) ==
    IF Reported(file, name) THEN ReportedValue(file, name) ELSE Num(0)

\* EBIT is calculated when Operating Income is there and EBIT is not
DerivesEBIT(file) == Reported(file, "Operating Income") /\ ~Reported(file, "EBIT")

EBITValue(file) ==
    RAdd(ReportedValue(file, "Operating Income"),
         ValueOrZero(file, "Other Income/Expense"))

\* DerivesEBT that looks for a reported EBIT only, not for the derived one
DerivesEBTFromReportedOnly(file) ==
    Reported(file, "EBIT") /\ ~Reported(file, "EBT")

\* EBT is calculated when EBIT is there (reported or derived) and EBT is not
DerivesEBT(file) ==
    (Reported(file, "EBIT") \/ DerivesEBIT(file)) /\ ~Reported(file, "EBT")

\* EBTValue with the interest expense added instead of subtracted
EBTValueAddsExpense(file) ==
    LET ebit == IF DerivesEBIT(file) THEN EBITValue(file)
                ELSE ValueOrZero(file, "EBIT")
    IN  RAdd(RAdd(ebit, ValueOrZero(file, "Interest Income")),
             ValueOrZero(file, "Interest Expense"))

EBTValue(file) ==
    LET ebit == IF DerivesEBIT(file) THEN EBITValue(file)
                ELSE ValueOrZero(file, "EBIT")
    IN  RSub(RAdd(ebit, ValueOrZero(file, "Interest Income")),
             ValueOrZero(file, "Interest Expense"))

\* nodes = valid_items, the derived names appended
Nodes(file) ==
    LoadedItems(file)
    \o (IF DerivesEBIT(file) THEN <<"EBIT">> ELSE <<>>)
    \o (IF DerivesEBT(file) THEN <<"EBT">> ELSE <<>>)

NodeNames(nodes) == {nodes[i] : i \in 1..Len(nodes)}

\* Idx as if nodes held every name once: the rank of the name among the
\* distinct names, in order of first appearance
IdxAmongUnique(nodes, name) ==
    LET first == CHOOSE i \in 1..Len(nodes) :
                     nodes[i] = name /\ \A j \in 1..Len(nodes) : nodes[j] = name => i <= j
    IN  Cardinality({nodes[j] : j \in 1..first})

\* idx = {n: i for i, n in enumerate(nodes)}: the last position of a name
\* (1-based here)
Idx(nodes, name) ==
    CHOOSE i \in 1..Len(nodes) :
        nodes[i] = name /\ \A j \in 1..Len(nodes) : nodes[j] = name => j <= i

\* bucket_values after bucket_values.update(derived_items)
NodeValue(file, name) ==
    IF name = "EBIT" /\ DerivesEBIT(file) THEN EBITValue(file)
    ELSE IF name = "EBT" /\ DerivesEBT(file) THEN EBTValue(file)
         ELSE ReportedValue(file, name)

\* bucket_display[name]: max(abs(val), 1e-9)
Display(file, name) ==
    LET a == RAbs(NodeValue(file, name))
    IN  IF AboveEpsilon(a) THEN a ELSE Epsilon

\* add_flow: the pair is appended only when both names are nodes
AddFlow(N, src, tgt) == IF src \in N /\ tgt \in N THEN <<<<src, tgt>>>> ELSE <<>>

\* FlowsToNetIncome with a wrong target in the first add_flow: EBT -> EBIT
FlowsToNetIncomeWrongTarget(N) ==
    IF "EBT" \in N
    THEN AddFlow(N, "EBT", "EBIT")
         \o (IF "Taxes" \in N THEN AddFlow(N, "Taxes", "Net Income") ELSE <<>>)
    ELSE AddFlow(N, "Operating Income", "Net Income")
         \o (IF "Taxes" \in N THEN AddFlow(N, "Taxes", "Net Income") ELSE <<>>)

\* FlowsToNetIncome without the taxes flow of the EBT branch
FlowsToNetIncomeDropsTaxes(N) ==
    IF "EBT" \in N
    THEN AddFlow(N, "EBT", "Net Income")
    ELSE AddFlow(N, "Operating Income", "Net Income")
         \o (IF "Taxes" \in N THEN AddFlow(N, "Taxes", "Net Income") ELSE <<>>)

\* EBT to Net Income with taxes, or the direct connection
FlowsToNetIncome(N) ==
    IF "EBT" \in N
    THEN AddFlow(N, "EBT", "Net Income")
         \o (IF "Taxes" \in N THEN AddFlow(N, "Taxes", "Net Income") ELSE <<>>)
    ELSE AddFlow(N, "Operating Income", "Net Income")
         \o (IF "Taxes" \in N THEN AddFlow(N, "Taxes", "Net Income") ELSE <<>>)

\* flows, in the order plot_sankey appends them, for the node-name set N
Flows(N) ==
    AddFlow(N, "Products", "Revenue")
    \o AddFlow(N, "Services", "Revenue")
    \o AddFlow(N, "Revenue", "Cost of Revenue")
    \o AddFlow(N, "Revenue", "Gross Profit")
    \o AddFlow(N, "Gross Profit", "Operating Expenses")
    \o AddFlow(N, "Gross Profit", "Operating Income")
    \o (IF "EBIT" \in N
        THEN AddFlow(N, "Operating Income", "EBIT")
             \o (IF "Other Income/Expense" \in N
                 THEN AddFlow(N, "Other Income/Expense", "EBIT") ELSE <<>>)
        ELSE (IF "Interest Income" \in N
              THEN AddFlow(N, "Operating Income", "Interest Income") ELSE <<>>)
             \o (IF "Interest Expense" \in N
                 THEN AddFlow(N, "Operating Income", "Interest Expense") ELSE <<>>)
             \o (IF "Other Income/Expense" \in N
                 THEN AddFlow(N, "Operating Income", "Other Income/Expense") ELSE <<>>))
    \o (IF "EBIT" \in N /\ "EBT" \in N
        THEN AddFlow(N, "EBIT", "EBT")
             \o (IF "Interest Income" \in N
                 THEN AddFlow(N, "Interest Income", "EBT") ELSE <<>>)
             \o (IF "Interest Expense" \in N
                 THEN AddFlow(N, "Interest Expense", "EBT") ELSE <<>>)
        ELSE <<>>)
    \o FlowsToNetIncome(N)
    \o (IF "Interest Income" \in N /\ "Net Income" \in N
           /\ "EBIT" \notin N /\ "EBT" \notin N
        THEN AddFlow(N, "Interest Income", "Net Income") ELSE <<>>)
    \o (IF "Interest Expense" \in N /\ "Net Income" \in N
           /\ "EBIT" \notin N /\ "EBT" \notin N
        THEN AddFlow(N, "Interest Expense", "Net Income") ELSE <<>>)

\* the loop over flows: a flow whose target displays at 1e-9 or less is
\* skipped (continue), the others are handed to the renderer
RECURSIVE EmittedFlows(_, _)
EmittedFlows(file, flows) ==
    IF flows = <<>> THEN <<>>
    ELSE (IF ~AboveEpsilon(Display(file, Head(flows)[2])) THEN <<>>
          ELSE <<Head(flows)>>)
         \o EmittedFlows(file, Tail(flows))

\* levels: the horizontal position of a name, in hundredths; a name the
\* table does not list keeps the initial 0.0
LevelHundredths(name) ==
    CASE name \in {"Products", "Services"} -> 0
      [] name = "Revenue" -> 15
      [] name \in {"Cost of Revenue", "Gross Profit"} -> 30
      [] name \in {"Operating Expenses", "Operating Income"} -> 45
      [] name \in {"EBIT", "Other Income/Expense"} -> 60
      [] name \in {"Interest Income", "Interest Expense", "EBT"} -> 75
      [] name \in {"Taxes", "Net Income"} -> 90
      [] OTHER -> 0

\* node_x after the loop over levels: only the position idx holds for a
\* name is assigned, an earlier node of the same name keeps 0.0
NodeX(nodes) ==
    [i \in 1..Len(nodes) |->
        IF Idx(nodes, nodes[i]) = i THEN LevelHundredths(nodes[i]) ELSE 0]

\* x_groups[x]: the keys of idx whose node has that x (in hundredths), in
\* the order of idx, i.e. of first appearance in nodes from position i on
RECURSIVE XGroup(_, _, _)
XGroup(nodes, x, i) ==
    IF i > Len(nodes) THEN <<>>
    ELSE LET first == \A j \in 1..(i - 1) : nodes[j] # nodes[i]
         IN  (IF first /\ LevelHundredths(nodes[i]) = x THEN <<nodes[i]>> ELSE <<>>)
             \o XGroup(nodes, x, i + 1)

\* node_y after the loop over x_groups: 0.1 + (i / (num_nodes - 1)) * 0.8 for
\* the i-th name of a group of several, 0.5 for a group of one and for a
\* node idx does not point at
NodeY(nodes) ==
    [i \in 1..Len(nodes) |->
        IF Idx(nodes, nodes[i]) # i THEN Rat(1, 2)
        ELSE LET g == XGroup(nodes, LevelHundredths(nodes[i]), 1)
                 k == CHOOSE k \in 1..Len(g) : g[k] = nodes[i]
             IN  IF Len(g) > 1
                 THEN RAdd(Rat(1, 10), RMul(Rat(k - 1, Len(g) - 1), Rat(8, 10)))
                 ELSE Rat(1, 2)]

\* PlotSankey with the magnitude of a link taken from its source node
PlotSankeySourceMagnitude(file) ==
    LET nodes == Nodes(file)
        flows == Flows(NodeNames(nodes))
        emitted == EmittedFlows(file, flows)
    IN  [nodes |-> nodes,
         value |-> [n \in NodeNames(nodes) |-> NodeValue(file, n)],
         derived |-> (IF DerivesEBIT(file) THEN {"EBIT"} ELSE {})
                     \cup (IF DerivesEBT(file) THEN {"EBT"} ELSE {}),
         flows |-> flows,
         link_source |-> [i \in 1..Len(emitted) |-> Idx(nodes, emitted[i][1])],
         link_target |-> [i \in 1..Len(emitted) |-> Idx(nodes, emitted[i][2])],
         link_value |-> [i \in 1..Len(emitted) |-> Display(file, emitted[i][1])],
         node_x |-> NodeX(nodes),
         node_y |-> NodeY(nodes)]

\* what plot_sankey hands to go.Sankey
PlotSankey(file) ==
    LET nodes == Nodes(file)
        flows == Flows(NodeNames(nodes))
        emitted == EmittedFlows(file, flows)
    IN  [nodes |-> nodes,
         value |-> [n \in NodeNames(nodes) |-> NodeValue(file, n)],
         derived |-> (IF DerivesEBIT(file) THEN {"EBIT"} ELSE {})
                     \cup (IF DerivesEBT(file) THEN {"EBT"} ELSE {}),
         flows |-> flows,
         link_source |-> [i \in 1..Len(emitted) |-> Idx(nodes, emitted[i][1])],
         link_target |-> [i \in 1..Len(emitted) |-> Idx(nodes, emitted[i][2])],
         link_value |-> [i \in 1..Len(emitted) |-> Display(file, emitted[i][2])],
         node_x |-> NodeX(nodes),
         node_y |-> NodeY(nodes)]

\* bucket files handed to plot_sankey on its own: any subset of the
\* taxonomy names and of EBIT, EBT, in taxonomy order, under a valuation
FileNames == Taxonomy \o <<"EBIT", "EBT">>

ValuationStated ==
    [n \in NodeNames(FileNames) |->
        CASE n = "Products" -> Num(600)            [] n = "Services" -> Num(400)
          [] n = "Revenue" -> Num(1000)            [] n = "Cost of Revenue" -> Num(600)
          [] n = "Gross Profit" -> Num(400)        [] n = "Operating Expenses" -> Num(200)
          [] n = "Operating Income" -> Num(200)    [] n = "Interest Expense" -> Num(15)
          [] n = "Interest Income" -> Num(5)       [] n = "Other Income/Expense" -> Num(-20)
          [] n = "Taxes" -> Num(40)                [] n = "Net Income" -> Num(130)
          [] n = "EBIT" -> Num(185)                [] n = "EBT" -> Num(175)]

ValuationZero == [n \in NodeNames(FileNames) |-> Num(0)]

\* some values zero, the derived ones cancelling to zero
ValuationMixed ==
    [n \in NodeNames(FileNames) |->
        CASE n = "Revenue" -> Num(0)               [] n = "Operating Income" -> Num(20)
          [] n = "Other Income/Expense" -> Num(-20) [] n = "Net Income" -> Num(0)
          [] n = "Interest Income" -> Num(0)       [] n = "EBT" -> Num(0)
          [] OTHER -> ValuationStated[n]]

Valuations == {ValuationStated, ValuationZero, ValuationMixed}

RECURSIVE FileOf(_, _, _)
FileOf(names, S, v) ==
    IF names = <<>> THEN <<>>
    ELSE (IF Head(names) \in S THEN <<Obj(Head(names), v[Head(names)])>> ELSE <<>>)
         \o FileOf(Tail(names), S, v)

\* files that list a name more than once: a second record of the name in
\* front of a file
DuplicatedFiles ==
    { <<Obj(n, Num(7))>> \o FileOf(FileNames, S, ValuationStated) :
        n \in {"Revenue", "Net Income"},
        S \in {TaxonomyNames, NodeNames(FileNames), TaxonomyNames \ {"Services"}} }

\* the same file with an entry of that name at value 0.0
WithZeroEntry(file, name) == Append(file, Obj(name, Num(0)))

\* the five entries of the third worked example followed by a Net Income
\* entry of value 0
ExampleThreeWithZeroNetIncome ==
    FileOf(FileNames,
           {"Operating Income", "Other Income/Expense", "Interest Income",
            "Interest Expense", "Taxes"},
           ValuationStated)
    \o <<Obj("Net Income", Num(0))>>

SankeyFiles ==
    { FileOf(FileNames, S, v) : S \in SUBSET NodeNames(FileNames), v \in Valuations }
    \cup DuplicatedFiles
    \cup {ExampleThreeWithZeroNetIncome}

----------------------------------------------------------------------------
(* app.py: a job of the web service, its log stream and its results        *)

\* the lines pipeline.py prints when it has run to its end: the summary
\* header of line 100, then the six output paths
DoneLine == "[Done] Pipeline complete!"
OutputLines ==
    <<"Cleaned text:", "Financial overview:", "Grade (score):", "Narrative:",
      "Financial buckets:", "Sankey diagram:">>
\* the last line the job queues
FinalLine == "Pipeline complete!"

\* line.strip().endswith('Pipeline complete!')
EndsStream(line) == line \in {DoneLine, FinalLine}

\* what the subprocess prints: some progress lines, then either the summary
\* (exit code 0) or a traceback (exit code 1)
ProgressLines(k) == [i \in 1..k |-> "-> step complete."]
PipelineRuns ==
    { [out |-> ProgressLines(k) \o <<DoneLine>> \o OutputLines, code |-> 0] :
        k \in 0..MaxLogLines }
    \cup { [out |-> ProgressLines(k) \o <<"Traceback">>, code |-> 1] :
             k \in 0..MaxLogLines }

NoResult == [narrative |-> "", sankey |-> ""]
NoReply == [code |-> 0, status |-> "", body |-> NoResult]

\* no job exists
NoJob ==
    /\ status = "none"
    /\ log_queue = <<>>
    /\ result = NoResult
    /\ job_pc = "none"
    /\ stdout = <<>>
    /\ returncode = 0
    /\ delivered = <<>>
    /\ stream_open = FALSE
    /\ results_reply = NoReply

\* upload_pdf: Job.__init__, the thread started, the client opens the stream
InitJob ==
    /\ pc = "idle"
    /\ summary_text = RestNone
    /\ raw = NoBrackets
    /\ buckets = <<>>
    /\ error = "none"
    /\ usedFallback = FALSE
    /\ breakdownCalls = 0
    /\ breakdownOutcome = "none"
    /\ preBreakdown = <<>>
    /\ preRescale = <<>>
    /\ firstOut = <<>>
    /\ run = 1
    /\ bucketFile = NoFile
    /\ graph = NoGraph
    /\ status = "pending"
    /\ log_queue = <<>>
    /\ result = NoResult
    /\ job_pc = "mark running"
    /\ \E r \in PipelineRuns : stdout = r.out /\ returncode = r.code
    /\ delivered = <<>>
    /\ stream_open = TRUE
    /\ results_reply = NoReply

\* Job.run: self.status = 'running'
MarkRunning ==
    /\ job_pc = "mark running"
    /\ status' = "running"
    /\ job_pc' = "log start"
    /\ UNCHANGED <<log_queue, result, stdout, returncode, delivered, stream_open,
                   results_reply>>
    /\ UNCHANGED pipelineVars

\* Job.run: self.log_queue.put("Processing PDF: ...")
LogStart ==
    /\ job_pc = "log start"
    /\ log_queue' = Append(log_queue, "Processing PDF:")
    /\ job_pc' = "stream"
    /\ UNCHANGED <<status, result, stdout, returncode, delivered, stream_open,
                   results_reply>>
    /\ UNCHANGED pipelineVars

\* Job.run: for line in proc.stdout: self.log_queue.put(line.strip())
ForwardLine ==
    /\ job_pc = "stream"
    /\ stdout # <<>>
    /\ log_queue' = Append(log_queue, Head(stdout))
    /\ stdout' = Tail(stdout)
    /\ UNCHANGED <<status, result, job_pc, returncode, delivered, stream_open,
                   results_reply>>
    /\ UNCHANGED pipelineVars

\* Job.run: proc.wait() and self.result = {...}
WaitAndSetResult ==
    /\ job_pc = "stream"
    /\ stdout = <<>>
    /\ result' = [narrative |-> "narrative.txt", sankey |-> "sankey.html"]
    /\ job_pc' = "log complete"
    /\ UNCHANGED <<status, log_queue, stdout, returncode, delivered, stream_open,
                   results_reply>>
    /\ UNCHANGED pipelineVars

\* Job.run: self.log_queue.put('Pipeline complete!')
LogComplete ==
    /\ job_pc = "log complete"
    /\ log_queue' = Append(log_queue, FinalLine)
    /\ job_pc' = "set status"
    /\ UNCHANGED <<status, result, stdout, returncode, delivered, stream_open,
                   results_reply>>
    /\ UNCHANGED pipelineVars

\* Job.run: self.status = 'completed' if proc.returncode == 0 else 'failed'
SetFinalStatus ==
    /\ job_pc = "set status"
    /\ status' = IF returncode = 0 THEN "completed" ELSE "failed"
    /\ job_pc' = "finished"
    /\ UNCHANGED <<log_queue, result, stdout, returncode, delivered, stream_open,
                   results_reply>>
    /\ UNCHANGED pipelineVars

\* logs.stream: line = job.log_queue.get(); yield; break on the terminating
\* line (get blocks while the queue is empty)
StreamLine ==
    /\ stream_open
    /\ log_queue # <<>>
    /\ delivered' = Append(delivered, Head(log_queue))
    /\ log_queue' = Tail(log_queue)
    /\ stream_open' = ~EndsStream(Head(log_queue))
    /\ UNCHANGED <<status, result, job_pc, stdout, returncode, results_reply>>
    /\ UNCHANGED pipelineVars

\* results, requested by the client once its log stream has ended
Results ==
    /\ ~stream_open
    /\ results_reply = NoReply
    /\ results_reply' =
          IF status # "completed"
          THEN [code |-> 400, status |-> status, body |-> NoResult]
          ELSE [code |-> 200, status |-> "", body |-> result]
    /\ UNCHANGED <<status, log_queue, result, job_pc, stdout, returncode,
                   delivered, stream_open>>
    /\ UNCHANGED pipelineVars

NextJob ==
    \/ MarkRunning \/ LogStart \/ ForwardLine \/ WaitAndSetResult
    \/ LogComplete \/ SetFinalStatus \/ StreamLine \/ Results

SpecJob == InitJob /\ [][NextJob]_vars

----------------------------------------------------------------------------
(* The pipeline as a state machine                                         *)

Init ==
    /\ pc = "start"
    /\ summary_text \in Texts
    /\ raw = NoBrackets
    /\ buckets = <<>>
    /\ error = "none"
    /\ usedFallback = FALSE
    /\ breakdownCalls = 0
    /\ breakdownOutcome = "none"
    /\ preBreakdown = <<>>
    /\ preRescale = <<>>
    /\ firstOut = <<>>
    /\ run = 1
    /\ bucketFile = NoFile
    /\ graph = NoGraph
    /\ NoJob

\* raw = call_ollama(prompt, model=model): the call comes back with text
CallPrimary ==
    /\ pc = "start"
    /\ \E r \in PrimaryResponses \ {Failure} : raw' = r
    /\ pc' = "parse"
    /\ UNCHANGED <<summary_text, buckets, error, usedFallback, breakdownCalls,
                   breakdownOutcome, preBreakdown, preRescale, firstOut, run,
                   bucketFile, graph>>
    /\ UNCHANGED jobVars

\* CallPrimaryFails with the error swallowed: the failed call is treated as
\* an empty response and the extraction goes on
CallPrimaryFailsSwallowed ==
    /\ pc = "start"
    /\ raw' = Failure
    /\ pc' = "parse"
    /\ UNCHANGED <<summary_text, buckets, error, usedFallback, breakdownCalls,
                   breakdownOutcome, preBreakdown, preRescale, firstOut, run,
                   bucketFile, graph>>
    /\ UNCHANGED jobVars

\* call_ollama raises RuntimeError (returncode != 0); nothing catches it in
\* extract_financial_buckets_from_summary nor in analyze_financials
CallPrimaryFails ==
    /\ pc = "start"
    /\ raw' = Failure
    /\ error' = "RuntimeError"
    /\ pc' = "raised"
    /\ UNCHANGED <<summary_text, buckets, usedFallback, breakdownCalls,
                   breakdownOutcome, preBreakdown, preRescale, firstOut, run,
                   bucketFile, graph>>
    /\ UNCHANGED jobVars

\* the try block around json.loads
ParseJSON ==
    /\ pc = "parse"
    /\ buckets' = Decode(raw)
    /\ pc' = "validate"
    /\ UNCHANGED <<summary_text, raw, error, usedFallback, breakdownCalls,
                   breakdownOutcome, preBreakdown, preRescale, firstOut, run,
                   bucketFile, graph>>
    /\ UNCHANGED jobVars

\* valid_buckets = all(...) raises AttributeError on a non-object element
ValidateRaises ==
    /\ pc = "validate"
    /\ ValidScan(buckets) = "raise"
    /\ error' = "AttributeError"
    /\ pc' = "raised"
    /\ UNCHANGED <<summary_text, raw, buckets, usedFallback, breakdownCalls,
                   breakdownOutcome, preBreakdown, preRescale, firstOut, run,
                   bucketFile, graph>>
    /\ UNCHANGED jobVars

\* the decoded list is kept
KeepDecoded ==
    /\ pc = "validate"
    /\ ValidScan(buckets) # "raise"
    /\ ~NeedsFallback(buckets)
    /\ pc' = "reconcile"
    /\ UNCHANGED <<summary_text, raw, buckets, error, usedFallback, breakdownCalls,
                   breakdownOutcome, preBreakdown, preRescale, firstOut, run,
                   bucketFile, graph>>
    /\ UNCHANGED jobVars

\* the regex fallback replaces the decoded list
Fallback ==
    /\ pc = "validate"
    /\ ValidScan(buckets) # "raise"
    /\ NeedsFallback(buckets)
    /\ buckets' = RegexFallback(summary_text)
    /\ usedFallback' = TRUE
    /\ pc' = "reconcile"
    /\ UNCHANGED <<summary_text, raw, error, breakdownCalls,
                   breakdownOutcome, preBreakdown, preRescale, firstOut, run,
                   bucketFile, graph>>
    /\ UNCHANGED jobVars

\* revenue_idx, products_idx, services_idx: KeyError on an item without
\* a bucket key
LocateRaises ==
    /\ pc = "reconcile"
    /\ \/ FindRaises(buckets, "Revenue")
       \/ FindRaises(buckets, "Products")
       \/ FindRaises(buckets, "Services")
    /\ error' = "KeyError"
    /\ pc' = "raised"
    /\ UNCHANGED <<summary_text, raw, buckets, usedFallback, breakdownCalls,
                   breakdownOutcome, preBreakdown, preRescale, firstOut, run,
                   bucketFile, graph>>
    /\ UNCHANGED jobVars

Located ==
    /\ ~FindRaises(buckets, "Revenue")
    /\ ~FindRaises(buckets, "Products")
    /\ ~FindRaises(buckets, "Services")

\* the condition of the breakdown request raises KeyError
BreakdownCondFails ==
    /\ pc = "reconcile"
    /\ Located
    /\ BreakdownCondRaises(buckets)
    /\ error' = "KeyError"
    /\ pc' = "raised"
    /\ UNCHANGED <<summary_text, raw, buckets, usedFallback, breakdownCalls,
                   breakdownOutcome, preBreakdown, preRescale, firstOut, run,
                   bucketFile, graph>>
    /\ UNCHANGED jobVars

\* no breakdown is requested
SkipBreakdown ==
    /\ pc = "reconcile"
    /\ Located
    /\ ~BreakdownCondRaises(buckets)
    /\ ~NeedsBreakdown(buckets)
    /\ preBreakdown' = buckets
    /\ pc' = "final"
    /\ UNCHANGED <<summary_text, raw, buckets, error, usedFallback, breakdownCalls,
                   breakdownOutcome, preRescale, firstOut, run,
                   bucketFile, graph>>
    /\ UNCHANGED jobVars

\* the secondary breakdown request and its try block
RequestBreakdown ==
    /\ pc = "reconcile"
    /\ Located
    /\ NeedsBreakdown(buckets)
    /\ \E ans \in BreakdownAnswers :
          /\ breakdownOutcome' = BreakdownOutcome(ans)
          /\ buckets' = ApplyBreakdown(buckets, ans)
    /\ breakdownCalls' = breakdownCalls + 1
    /\ preBreakdown' = buckets
    /\ pc' = "final"
    /\ UNCHANGED <<summary_text, raw, error, usedFallback, preRescale,
                   firstOut, run, bucketFile, graph>>
    /\ UNCHANGED jobVars

\* the final validation raises KeyError
FinalValidationRaises ==
    /\ pc = "final"
    /\ FinalRaises(buckets)
    /\ error' = "KeyError"
    /\ pc' = "raised"
    /\ UNCHANGED <<summary_text, raw, buckets, usedFallback, breakdownCalls,
                   breakdownOutcome, preBreakdown, preRescale, firstOut, run,
                   bucketFile, graph>>
    /\ UNCHANGED jobVars

\* the final validation, then return buckets
FinalValidation ==
    /\ pc = "final"
    /\ ~FinalRaises(buckets)
    /\ preRescale' = buckets
    /\ buckets' = Rescale(buckets)
    /\ pc' = "returned"
    /\ UNCHANGED <<summary_text, raw, error, usedFallback, breakdownCalls,
                   breakdownOutcome, preBreakdown, firstOut, run,
                   bucketFile, graph>>
    /\ UNCHANGED jobVars

\* analyze_financials: json.dump(buckets, fw) and return out_path; the
\* locals of the extraction are gone once it has returned
WriteBuckets ==
    /\ pc = "returned"
    /\ bucketFile' = Written(buckets)
    /\ pc' = "plot"
    /\ summary_text' = RestNone
    /\ raw' = NoBrackets
    /\ buckets' = <<>>
    /\ usedFallback' = FALSE
    /\ breakdownCalls' = 0
    /\ breakdownOutcome' = "none"
    /\ preBreakdown' = <<>>
    /\ preRescale' = <<>>
    /\ UNCHANGED <<error, firstOut, run, graph>>
    /\ UNCHANGED jobVars

\* plot_sankey(json_path)
Plot ==
    /\ pc = "plot"
    /\ graph' = PlotSankey(bucketFile.records)
    /\ pc' = "done"
    /\ UNCHANGED <<summary_text, raw, buckets, error, usedFallback, breakdownCalls,
                   breakdownOutcome, preBreakdown, preRescale, firstOut, run,
                   bucketFile>>
    /\ UNCHANGED jobVars

Next ==
    \/ CallPrimary \/ CallPrimaryFails \/ ParseJSON
    \/ ValidateRaises \/ KeepDecoded \/ Fallback
    \/ LocateRaises \/ BreakdownCondFails \/ SkipBreakdown \/ RequestBreakdown
    \/ FinalValidationRaises \/ FinalValidation
    \/ WriteBuckets \/ Plot

Spec == Init /\ [][Next]_vars

----------------------------------------------------------------------------
(* plot_sankey on its own, over arbitrary bucket files                     *)

InitSankey ==
    /\ pc = "plot"
    /\ summary_text = RestNone
    /\ raw = NoBrackets
    /\ buckets = <<>>
    /\ error = "none"
    /\ usedFallback = FALSE
    /\ breakdownCalls = 0
    /\ breakdownOutcome = "none"
    /\ preBreakdown = <<>>
    /\ preRescale = <<>>
    /\ firstOut = <<>>
    /\ run = 1
    /\ bucketFile \in {Written(f) : f \in SankeyFiles}
    /\ graph = NoGraph
    /\ NoJob

NextSankey == Plot

SpecSankey == InitSankey /\ [][NextSankey]_vars

----------------------------------------------------------------------------
(* The regex fallback on texts with one statement of Products, over a menu *)
(* of literals and units                                                   *)

\* literals the capture group [\d,]+(?:\.\d+)? can hold, each with the number
\* it denotes
ParseCases ==
    { [lit |-> <<"5">>, val |-> Num(5)],
      [lit |-> <<"0">>, val |-> Num(0)],
      [lit |-> <<"1", "0", "0", "0">>, val |-> Num(1000)],
      [lit |-> <<"1", ",", "0", "0", "0">>, val |-> Num(1000)],
      [lit |-> <<"1", ",", "2", "3", "4", ".", "5">>, val |-> Rat(2469, 2)],
      [lit |-> <<"1", "2", "3", "4", ".", "5">>, val |-> Rat(2469, 2)],
      [lit |-> <<"0", ".", "6">>, val |-> Rat(3, 5)],
      [lit |-> <<",", "7", ",">>, val |-> Num(7)],
      [lit |-> <<"3", "9", "4", ",", "3", "2", "8">>, val |-> Num(394328)] }

MillionUnits == {"million", "Million", "MILLION", "mIlLiOn", "m", "M"}
BillionUnits == {"billion", "Billion", "BILLION", "bIlLiOn", "b", "B"}
ParseUnits == MillionUnits \cup BillionUnits \cup {""}

ParseTexts ==
    { [RestNone EXCEPT !["Products"] = <<Match(c.lit, u), NoMatch>>] :
        c \in ParseCases, u \in ParseUnits }

InitParse ==
    /\ pc = "validate"
    /\ summary_text \in ParseTexts
    /\ raw = NoBrackets
    /\ buckets = <<>>
    /\ error = "none"
    /\ usedFallback = FALSE
    /\ breakdownCalls = 0
    /\ breakdownOutcome = "none"
    /\ preBreakdown = <<>>
    /\ preRescale = <<>>
    /\ firstOut = <<>>
    /\ run = 1
    /\ bucketFile = NoFile
    /\ graph = NoGraph
    /\ NoJob

NextParse == Fallback

SpecParse == InitParse /\ [][NextParse]_vars

----------------------------------------------------------------------------
(* The extraction up to the regex fallback, run twice over the same text   *)

\* the same text is handed to a second run, whose primary call may answer
\* differently
RunFallbackAgain ==
    /\ pc = "reconcile"
    /\ usedFallback
    /\ run = 1
    /\ firstOut' = buckets
    /\ run' = 2
    /\ pc' = "start"
    /\ raw' = NoBrackets
    /\ buckets' = <<>>
    /\ usedFallback' = FALSE
    /\ UNCHANGED <<summary_text, error, breakdownCalls, breakdownOutcome,
                   preBreakdown, preRescale, bucketFile, graph>>
    /\ UNCHANGED jobVars

NextFallback ==
    \/ CallPrimary \/ ParseJSON \/ Fallback \/ RunFallbackAgain

SpecFallback == Init /\ [][NextFallback]_vars

----------------------------------------------------------------------------
(* Reconciliation on its own, run twice over the same bucket list          *)

InitReconcile ==
    /\ pc = "reconcile"
    /\ summary_text = RestNone
    /\ raw = NoBrackets
    /\ buckets \in ReconInputs
    /\ error = "none"
    /\ usedFallback = FALSE
    /\ breakdownCalls = 0
    /\ breakdownOutcome = "none"
    /\ preBreakdown = <<>>
    /\ preRescale = <<>>
    /\ firstOut = <<>>
    /\ run = 1
    /\ bucketFile = NoFile
    /\ graph = NoGraph
    /\ NoJob

\* the list the first run returned is handed to a second run
RunAgain ==
    /\ pc = "returned"
    /\ run = 1
    /\ firstOut' = buckets
    /\ run' = 2
    /\ pc' = "reconcile"
    /\ UNCHANGED <<summary_text, raw, buckets, error, usedFallback, breakdownCalls,
                   breakdownOutcome, preBreakdown, preRescale, bucketFile, graph>>
    /\ UNCHANGED jobVars

NextReconcile ==
    \/ SkipBreakdown \/ RequestBreakdown \/ FinalValidation \/ RunAgain

SpecReconcile == InitReconcile /\ [][NextReconcile]_vars

----------------------------------------------------------------------------
(* Vocabulary of the properties                                            *)

\* the list holds an entry of that name
Named(b, name) == \E i \in 1..Len(b) : b[i].bucket = name

\* the value of the (first) entry of that name
EntryValue(b, name) ==
    b[CHOOSE i \in 1..Len(b) :
        b[i].bucket = name /\ \A j \in 1..Len(b) : b[j].bucket = name => i <= j].value

HasAllThree(b) ==
    /\ Named(b, "Products") /\ Named(b, "Services") /\ Named(b, "Revenue")
    /\ IsNum(EntryValue(b, "Products")) /\ IsNum(EntryValue(b, "Services"))
    /\ IsNum(EntryValue(b, "Revenue"))

\* |p + s - r| <= r / 100, on integers
WithinOnePercent(p, s, r) ==
    LET dev == RAbs(RSub(RAdd(p, s), r))
    IN  RLeq(RMul(Num(100), dev), r)

\* n/d rounded to hundredths, as a number of hundredths
Hundredths(v) == (200 * v.n + v.d) \div (2 * v.d)

\* a directed graph has no cycle iff peeling off the nodes without an
\* incoming edge, again and again, leaves nothing
RECURSIVE Acyclic(_, _)
Acyclic(V, E) ==
    LET sources == {v \in V : ~\E e \in E : e[2] = v}
    IN  IF V = {} THEN TRUE
        ELSE IF sources = {} THEN FALSE
             ELSE Acyclic(V \ sources, {e \in E : e[1] \notin sources})

\* the nodes joined to S by edges taken in either direction
RECURSIVE Joined(_, _)
Joined(S, E) ==
    LET T == S \cup {e[2] : e \in {x \in E : x[1] \in S}}
               \cup {e[1] : e \in {x \in E : x[2] \in S}}
    IN  IF T = S THEN S ELSE Joined(T, E)

Connected(V, E) == V = {} \/ Joined({CHOOSE v \in V : TRUE}, E) = V

\* the nodes reached from S along directed edges
RECURSIVE Reach(_, _)
Reach(S, E) ==
    LET T == S \cup {e[2] : e \in {x \in E : x[1] \in S}}
    IN  IF T = S THEN S ELSE Reach(T, E)

\* the records of a file whose name is a taxonomy key, EBIT or EBT
KnownName(r) == r.bucket \in TaxonomyNames \cup {"EBIT", "EBT"}
WithoutUnknownNames(f) == SelectSeq(f, KnownName)

\* the records of a file in the opposite order
Reversed(f) == [i \in 1..Len(f) |-> f[Len(f) + 1 - i]]

\* the vertical offset of the node idx holds for a name
OffsetOf(g, name) ==
    g.node_y[CHOOSE i \in 1..Len(g.nodes) :
                g.nodes[i] = name /\ \A j \in 1..Len(g.nodes) : g.nodes[j] = name => j <= i]

\* the links handed to the renderer, by the names of their end nodes
NamedLinks(g) ==
    {<<g.nodes[g.link_source[k]], g.nodes[g.link_target[k]]>> :
        k \in 1..Len(g.link_source)}

FlowEdges(g) == {g.flows[i] : i \in 1..Len(g.flows)}
LinkEdges(g) == {<<g.link_source[i], g.link_target[i]>> : i \in 1..Len(g.link_source)}

----------------------------------------------------------------------------
(* Properties                                                              *)

\* C1: a returned bucket list with Products > 0, Services > 0 and
\* Revenue > 0 has |Products + Services - Revenue| <= 0.01 * Revenue.
C1_ReconciledWithinTolerance ==
    (pc = "returned" /\ HasAllThree(buckets)
       /\ RPos(EntryValue(buckets, "Products"))
       /\ RPos(EntryValue(buckets, "Services"))
       /\ RPos(EntryValue(buckets, "Revenue")))
    => WithinOnePercent(EntryValue(buckets, "Products"),
                        EntryValue(buckets, "Services"),
                        EntryValue(buckets, "Revenue"))

\* C1 witness: a list is returned whose Products and Services were rescaled
C1_Witness ==
    /\ pc = "returned" /\ HasAllThree(buckets)
    /\ RPos(EntryValue(buckets, "Products"))
    /\ RPos(EntryValue(buckets, "Services"))
    /\ RPos(EntryValue(buckets, "Revenue"))
    /\ buckets # preRescale

\* C3: with Products, Services, Revenue > 0 before the final validation:
\* when Products + Services deviates from Revenue by more than 1% of
\* Revenue, both are multiplied by Revenue / (Products + Services), so that
\* their sum is Revenue and Products : Services is as before (600, 500 with
\* Revenue 1000 give 545.45 and 454.55); otherwise neither value changes.
C3_ProportionalRescale ==
    (pc = "returned" /\ HasAllThree(preRescale)
       /\ RPos(EntryValue(preRescale, "Products"))
       /\ RPos(EntryValue(preRescale, "Services"))
       /\ RPos(EntryValue(preRescale, "Revenue")))
    => LET p0 == EntryValue(preRescale, "Products")
           s0 == EntryValue(preRescale, "Services")
           r0 == EntryValue(preRescale, "Revenue")
           p1 == EntryValue(buckets, "Products")
           s1 == EntryValue(buckets, "Services")
       IN  IF WithinOnePercent(p0, s0, r0)
           THEN p1 = p0 /\ s1 = s0
           ELSE /\ p1 = RDiv(RMul(p0, r0), RAdd(p0, s0))
                /\ s1 = RDiv(RMul(s0, r0), RAdd(p0, s0))
                /\ RAdd(p1, s1) = r0
                /\ RMul(p1, s0) = RMul(s1, p0)
                /\ (p0 = Num(600) /\ s0 = Num(500) /\ r0 = Num(1000)
                      => Hundredths(p1) = 54545 /\ Hundredths(s1) = 45455)

\* C3 witness: 600, 500 with Revenue 1000 went through the rescale
C3_Witness ==
    /\ pc = "returned" /\ HasAllThree(preRescale)
    /\ EntryValue(preRescale, "Products") = Num(600)
    /\ EntryValue(preRescale, "Services") = Num(500)
    /\ EntryValue(preRescale, "Revenue") = Num(1000)
    /\ buckets # preRescale

\* the primary result is unusable: nothing decoded, an empty array, an
\* element without a numeric value (an absent value key reads as 0), or
\* every value exactly zero
Unusable(resp) ==
    \/ resp.shape # "array"
    \/ resp.items = <<>>
    \/ \E i \in 1..Len(resp.items) :
          resp.items[i].kind = "scalar" \/ resp.items[i].value.t = "str"
    \/ AllZero(resp.items)

\* C4: the regex fallback runs if and only if the primary result is
\* unusable; otherwise the decoded list is the extraction result.
C4_FallbackIffUnusable ==
    (raw.status = "ok" /\ pc \in {"reconcile", "final", "returned", "raised"})
    => /\ usedFallback <=> Unusable(raw)
       /\ (~Unusable(raw) /\ pc = "reconcile" => buckets = raw.items)

\* the primary answer is a decode failure: no brackets, malformed JSON, or
\* an array with an element that is not an object with both fields
DecodeFailure(resp) ==
    /\ resp.status = "ok"
    /\ \/ resp.shape \in {"nobrackets", "malformed"}
       \/ /\ resp.shape = "array"
          /\ \E i \in 1..Len(resp.items) :
                \/ resp.items[i].kind = "scalar"
                \/ resp.items[i].bucket = NoKey
                \/ resp.items[i].value.t = "missing"

\* C5: after a decode failure no exception is raised and the buckets come
\* from the regex fallback.
C5_DecodeFailureRecovered ==
    DecodeFailure(raw)
    => /\ error = "none"
       /\ (pc \in {"reconcile", "final", "returned"} => usedFallback)

\* C6: a returned bucket list holds exactly one entry for each of the 12
\* taxonomy names and no other entry.
C6_FullTaxonomy ==
    pc = "returned"
    => /\ Len(buckets) = Len(Taxonomy)
       /\ \A name \in TaxonomyNames :
             Cardinality({i \in 1..Len(buckets) : buckets[i].bucket = name}) = 1

\* C7: a failed primary call is a hard error: no bucket list, no regex
\* fallback, no breakdown request, no bucket file.
C7_PrimaryFailureIsHardError ==
    raw = Failure
    => /\ pc = "raised" /\ error = "RuntimeError"
       /\ buckets = <<>> /\ ~usedFallback
       /\ breakdownCalls = 0 /\ bucketFile = NoFile

\* C7 witness: the primary call has failed
C7_Witness == raw = Failure /\ pc = "raised"

\* C8: after a failed breakdown request (failed call, undecodable answer,
\* malformed element) nothing is raised and Products and Services are as
\* they were before the request.
C8_BreakdownFailureKeepsValues ==
    breakdownOutcome \in {"call failed", "undecodable", "element raised"}
    => /\ error = "none"
       /\ (pc = "final" => buckets = preBreakdown)
       /\ (pc = "returned" => preRescale = preBreakdown)

\* C9: the graph plot_sankey builds from a returned bucket list is
\* connected by its emitted edges.
C9_GraphConnected ==
    pc = "done"
    => Connected(1..Len(graph.nodes), LinkEdges(graph))

\* C10: the directed edge set built by plot_sankey has no directed cycle,
\* among the flows (by name) and among the emitted links (by index).
C10_FlowsAcyclic ==
    pc = "done"
    => /\ Acyclic(NodeNames(graph.nodes), FlowEdges(graph))
       /\ Acyclic(1..Len(graph.nodes), LinkEdges(graph))

\* C10 witness: a graph with the full chain from Products to Net Income
C10_Witness ==
    /\ pc = "done"
    /\ {<<"Products", "Revenue">>, <<"Revenue", "Gross Profit">>,
        <<"Gross Profit", "Operating Income">>, <<"Operating Income", "EBIT">>,
        <<"EBIT", "EBT">>, <<"EBT", "Net Income">>} \subseteq FlowEdges(graph)
    /\ Len(graph.link_source) >= 6

\* C2 as stated: a second run of the reconciliation leaves every value of
\* the first run's output unchanged, whatever the service answers.
C2_Idempotent ==
    (run = 2 /\ pc = "returned") => buckets = firstOut

\* The part of C2 that the code keeps: on a list holding Products, Services
\* and Revenue, a second run changes nothing unless the first run's output
\* still has Revenue > 0 with Products or Services at 0 (the case in which
\* the second run asks the service again).
IdempotentUnlessAskedAgain ==
    (run = 2 /\ pc = "returned" /\ HasAllThree(firstOut)
       /\ ~(RPos(EntryValue(firstOut, "Revenue"))
            /\ (RZero(EntryValue(firstOut, "Products"))
                \/ RZero(EntryValue(firstOut, "Services")))))
    => buckets = firstOut

\* A second run after a first run that rescaled to non-integral values
SecondRunAfterRescale ==
    /\ run = 2 /\ pc = "returned" /\ HasAllThree(firstOut)
    /\ RPos(EntryValue(firstOut, "Products"))
    /\ RPos(EntryValue(firstOut, "Services"))
    /\ EntryValue(firstOut, "Products").d # 1
    /\ buckets = firstOut

\* C11: whenever Revenue and Net Income are both nodes, every node other
\* than Net Income is the source of at least one edge handed to the renderer.
C11_NoOrphanedNode ==
    (pc = "done" /\ {"Revenue", "Net Income"} \subseteq NodeNames(graph.nodes))
    => \A i \in 1..Len(graph.nodes) :
          graph.nodes[i] # "Net Income"
          => \E k \in 1..Len(graph.link_source) : graph.link_source[k] = i

\* C12: whenever Products (resp. Services) and Net Income are both nodes,
\* a directed path of flows leads from it to Net Income, and Net Income is
\* the source of no flow.
C12_NetIncomeReachableSink ==
    pc = "done"
    => /\ \A s \in {"Products", "Services"} :
             {s, "Net Income"} \subseteq NodeNames(graph.nodes)
             => "Net Income" \in Reach({s}, FlowEdges(graph))
       /\ \A e \in FlowEdges(graph) : e[1] # "Net Income"

\* C13: every flow has both endpoints in the node set and differing
\* endpoints, and the k-th source/target index handed to the renderer is the
\* position of a node carrying the k-th emitted flow's source/target name.
C13_EdgeEndpoints ==
    pc = "done"
    => LET N == Len(graph.nodes)
           emitted == EmittedFlows(bucketFile.records, graph.flows)
       IN  /\ \A e \in FlowEdges(graph) :
                 /\ e[1] \in NodeNames(graph.nodes)
                 /\ e[2] \in NodeNames(graph.nodes)
                 /\ e[1] # e[2]
           /\ Len(graph.link_source) = Len(emitted)
           /\ Len(graph.link_target) = Len(emitted)
           /\ \A k \in 1..Len(emitted) :
                 /\ graph.link_source[k] \in 1..N
                 /\ graph.link_target[k] \in 1..N
                 /\ graph.nodes[graph.link_source[k]] = emitted[k][1]
                 /\ graph.nodes[graph.link_target[k]] = emitted[k][2]

\* C13 witness: a file listing Revenue twice, with links out of Products and
\* into and out of Revenue
C13_Witness ==
    /\ pc = "done"
    /\ \E i, j \in 1..Len(graph.nodes) :
          i < j /\ graph.nodes[i] = "Revenue" /\ graph.nodes[j] = "Revenue"
    /\ \E k \in 1..Len(graph.link_source) :
          /\ graph.nodes[graph.link_source[k]] = "Products"
          /\ graph.nodes[graph.link_target[k]] = "Revenue"
    /\ \E k \in 1..Len(graph.link_source) :
          graph.nodes[graph.link_source[k]] = "Revenue"

\* C14: the magnitude of every link handed to the renderer is the absolute
\* value of its target node's value (reported or derived), and is >= 0.
C14_MagnitudeIsTargetAbs ==
    pc = "done"
    => \A k \in 1..Len(graph.link_value) :
          /\ graph.link_value[k]
               = RAbs(graph.value[graph.nodes[graph.link_target[k]]])
          /\ RLeq(Num(0), graph.link_value[k])

\* C14 witness: a link into a node of negative value (the derived EBT),
\* whose magnitude differs from the absolute value of its source
C14_Witness ==
    /\ pc = "done"
    /\ \E k \in 1..Len(graph.link_value) :
          LET src == graph.nodes[graph.link_source[k]]
              tgt == graph.nodes[graph.link_target[k]]
          IN  /\ tgt \in graph.derived
              /\ graph.value[tgt].n < 0
              /\ graph.link_value[k] = RNeg(graph.value[tgt])
              /\ RAbs(graph.value[src]) # graph.link_value[k]

\* C15: EBIT is derived, as Operating Income + Other Income/Expense, exactly
\* when Operating Income is in the file and EBIT is not; EBT is derived, as
\* EBIT + Interest Income - Interest Expense, exactly when EBIT is there
\* (supplied or derived) and EBT is not in the file; absent terms count 0; a
\* supplied EBIT or EBT keeps its value and is not marked derived.
C15_DerivedEBITandEBT ==
    pc = "done"
    => LET f == bucketFile.records
           val(n) == IF Named(f, n) THEN EntryValue(f, n) ELSE Num(0)
           d == graph.derived
       IN  /\ ("EBIT" \in d) <=> (Named(f, "Operating Income") /\ ~Named(f, "EBIT"))
           /\ "EBIT" \in d
              => graph.value["EBIT"]
                   = RAdd(val("Operating Income"), val("Other Income/Expense"))
           /\ ("EBT" \in d) <=> ((Named(f, "EBIT") \/ "EBIT" \in d) /\ ~Named(f, "EBT"))
           /\ "EBT" \in d
              => graph.value["EBT"]
                   = RSub(RAdd(graph.value["EBIT"], val("Interest Income")),
                          val("Interest Expense"))
           /\ Named(f, "EBIT") => graph.value["EBIT"] = val("EBIT")
           /\ Named(f, "EBT") => graph.value["EBT"] = val("EBT")
           /\ (~Named(f, "Operating Income") /\ ~Named(f, "EBIT")) => d = {}

\* C15 witness: Operating Income 200, Other -20, Interest Income 5,
\* Interest Expense 15 have given EBIT 180 and EBT 170, both derived
C15_Witness ==
    /\ pc = "done"
    /\ Named(bucketFile.records, "Other Income/Expense")
    /\ Named(bucketFile.records, "Interest Income")
    /\ Named(bucketFile.records, "Interest Expense")
    /\ Named(bucketFile.records, "Operating Income")
    /\ graph.derived = {"EBIT", "EBT"}
    /\ EntryValue(bucketFile.records, "Operating Income") = Num(200)
    /\ graph.value["EBIT"] = Num(180)
    /\ graph.value["EBT"] = Num(170)

\* C16: a file that omits a taxonomy entry and the same file with that entry
\* at 0.0 give the same graph: same node set, same derived EBIT/EBT, same
\* edges.
C16_AbsentIsZero ==
    pc = "done"
    => \A n \in TaxonomyNames :
          ~Named(bucketFile.records, n)
          => LET g0 == PlotSankey(WithZeroEntry(bucketFile.records, n))
             IN  /\ NodeNames(g0.nodes) = NodeNames(graph.nodes)
                 /\ g0.derived = graph.derived
                 /\ FlowEdges(g0) = FlowEdges(graph)
                 /\ NamedLinks(g0) = NamedLinks(graph)

\* C17: after the regex fallback every key holds the value parsed from the
\* first of its patterns, in list order, that matched and parsed (a value of
\* 0.0 included), a match that fails to parse is passed over without an
\* error, and a key without such a pattern holds 0.0.
C17_FirstPatternWins ==
    (usedFallback /\ pc = "reconcile")
    => /\ error = "none"
       /\ Len(buckets) = Len(Taxonomy)
       /\ \A i \in 1..Len(Taxonomy) :
             LET outs == summary_text[Taxonomy[i]]
                 good == {j \in 1..Len(outs) :
                             outs[j].matched /\ StripCommas(outs[j].lit) # <<>>}
                 first == CHOOSE j \in good : \A k \in good : j <= k
             IN  /\ buckets[i].bucket = Taxonomy[i]
                 /\ buckets[i].value
                      = IF good = {} THEN Num(0) ELSE ParseMatch(outs[first]).val

\* C17 witness: Products' first pattern matched "," (no parse) and its
\* second gave 0.6 billion; Services' first pattern gave 0 although its
\* second matched 400; Revenue matched nothing
C17_Witness ==
    /\ usedFallback /\ pc = "reconcile"
    /\ summary_text["Products"] = <<Match(LComma, ""), Match(L0p6, "Billion")>>
    /\ summary_text["Services"] = <<Match(L0, ""), Match(L400, "")>>
    /\ summary_text["Revenue"] = <<NoMatch, NoMatch>>
    /\ buckets[1].value = Num(600)
    /\ buckets[2].value = Num(0)
    /\ buckets[3].value = Num(0)

C19_ValueInMillions ==
    (usedFallback /\ pc = "reconcile"
       /\ \E c \in ParseCases : summary_text["Products"][1].lit = c.lit)
    => LET m == summary_text["Products"][1]
           v == (CHOOSE c \in ParseCases : c.lit = m.lit).val
       IN  buckets[1].value
             = IF m.unit \in BillionUnits THEN RMul(Num(1000), v) ELSE v

\* C19 witness: "1,234.5" captured with "Billion" has become 1234500
C19_Witness ==
    /\ usedFallback /\ pc = "reconcile"
    /\ summary_text["Products"][1]
         = Match(<<"1", ",", "2", "3", "4", ".", "5">>, "Billion")
    /\ buckets[1].value = Num(1234500)

\* C20: the nodes sharing a horizontal position (a stage) have pairwise
\* distinct vertical offsets: they are 0.1 + 0.8 * i / (n - 1), i = 0..n-1,
\* when the stage holds n > 1 nodes, and 0.5 when it holds one.
C20_DistinctOffsetsInStage ==
    pc = "done"
    => \A i \in 1..Len(graph.nodes) :
          LET stage == {j \in 1..Len(graph.nodes) : graph.node_x[j] = graph.node_x[i]}
              n == Cardinality(stage)
          IN  /\ \A j \in stage : j # i => graph.node_y[j] # graph.node_y[i]
              /\ n = 1 => graph.node_y[i] = Rat(1, 2)
              /\ n > 1 => {graph.node_y[j] : j \in stage}
                            = {RAdd(Rat(1, 10), Rat(8 * k, 10 * (n - 1))) : k \in 0..(n - 1)}

HoldsExampleThree(f) ==
    /\ \A n \in {"Operating Income", "Other Income/Expense", "Interest Income",
                 "Interest Expense", "Taxes"} : Named(f, n)
    /\ EntryValue(f, "Operating Income") = Num(200)
    /\ EntryValue(f, "Other Income/Expense") = Num(-20)
    /\ EntryValue(f, "Interest Income") = Num(5)
    /\ EntryValue(f, "Interest Expense") = Num(15)
    /\ EntryValue(f, "Taxes") = Num(40)

ExampleThreeInnerEdges ==
    { <<"Operating Income", "EBIT">>, <<"Other Income/Expense", "EBIT">>,
      <<"EBIT", "EBT">>, <<"Interest Income", "EBT">>, <<"Interest Expense", "EBT">> }

ExampleThreeFinalEdges ==
    { <<"EBT", "Net Income">>, <<"Taxes", "Net Income">> }

BeforeReconciliation ==
    IF usedFallback THEN RegexFallback(summary_text) ELSE Decode(raw)

\* C23: the returned list has the entries of the list handed to the
\* reconciliation, in number, order and name, and every entry not named
\* Products or Services has kept its value.
C23_OnlyProductsAndServicesChange ==
    pc = "returned"
    => LET before == BeforeReconciliation
       IN  /\ Len(buckets) = Len(before)
           /\ \A i \in 1..Len(before) :
                 /\ buckets[i].bucket = before[i].bucket
                 /\ before[i].bucket \notin {"Products", "Services"}
                    => buckets[i].value = before[i].value

\* C24: the breakdown is requested at most once in a run, only with
\* Revenue > 0 and Products or Services at 0, and its answer changes only a
\* slot that held 0: a Products or Services value that was not 0 before the
\* request is the same after it.
C24_BreakdownFillsZeroSlotsOnly ==
    /\ breakdownCalls <= 1
    /\ (pc = "final" /\ breakdownCalls = 1 /\ HasAllThree(preBreakdown))
       => /\ RPos(EntryValue(preBreakdown, "Revenue"))
          /\ RZero(EntryValue(preBreakdown, "Products"))
             \/ RZero(EntryValue(preBreakdown, "Services"))
          /\ \A n \in {"Products", "Services"} :
                ~RZero(EntryValue(preBreakdown, n))
                => EntryValue(buckets, n) = EntryValue(preBreakdown, n)

\* C25: whenever Interest Income (resp. Interest Expense) and Net Income are
\* both nodes, a flow leads from the interest node to EBT or to Net Income.
C25_InterestNotDropped ==
    pc = "done"
    => \A n \in {"Interest Income", "Interest Expense"} :
          {n, "Net Income"} \subseteq NodeNames(graph.nodes)
          => \E e \in FlowEdges(graph) : e[1] = n /\ e[2] \in {"EBT", "Net Income"}

\* C26: whenever Taxes and Net Income are both nodes, the edge
\* Taxes -> Net Income is among the edges handed to the renderer.
C26_TaxesToNetIncome ==
    (pc = "done" /\ {"Taxes", "Net Income"} \subseteq NodeNames(graph.nodes))
    => <<"Taxes", "Net Income">> \in NamedLinks(graph)

\* C27: two bucket files holding the same entries in a different record
\* order give every node the same vertical offset.
C27_OrderWithinStageFixed ==
    pc = "done"
    => LET g2 == PlotSankey(Reversed(bucketFile.records))
       IN  \A n \in NodeNames(graph.nodes) : OffsetOf(g2, n) = OffsetOf(graph, n)

\* C28: an entry with an unknown name takes no part in the positioning: the
\* offsets of Products and Services are those of the same file without the
\* unknown entries.
C28_UnknownNameNotPositioned ==
    pc = "done"
    => LET g2 == PlotSankey(WithoutUnknownNames(bucketFile.records))
       IN  \A n \in {"Products", "Services"} \cap NodeNames(graph.nodes) :
              OffsetOf(g2, n) = OffsetOf(graph, n)

FlattenedFallbackEdges ==
    { <<"Operating Income", "Interest Income">>,
      <<"Operating Income", "Interest Expense">>,
      <<"Operating Income", "Other Income/Expense">>,
      <<"Operating Income", "Net Income">> }

\* C29: Operating Income among the nodes implies EBIT and EBT among the
\* nodes, EBIT among the nodes implies EBT among the nodes, and no flow goes
\* from Operating Income to Interest Income, Interest Expense,
\* Other Income/Expense or Net Income.
C29_FlattenedEdgesNeverBuilt ==
    pc = "done"
    => LET N == NodeNames(graph.nodes)
       IN  /\ "Operating Income" \in N => {"EBIT", "EBT"} \subseteq N
           /\ "EBIT" \in N => "EBT" \in N
           /\ FlowEdges(graph) \cap FlattenedFallbackEdges = {}
           /\ NamedLinks(graph) \cap FlattenedFallbackEdges = {}

\* C29 witness: Operating Income, the interest entries, Other Income/Expense
\* and Net Income are nodes, neither EBIT nor EBT was supplied, and Operating
\* Income flows to EBIT only
C29_Witness ==
    /\ pc = "done"
    /\ {"Operating Income", "Interest Income", "Interest Expense",
        "Other Income/Expense", "Net Income"} \subseteq NodeNames(graph.nodes)
    /\ graph.derived = {"EBIT", "EBT"}
    /\ {e \in FlowEdges(graph) : e[1] = "Operating Income"}
         = {<<"Operating Income", "EBIT">>}

\* C30: once the client's log stream has ended, the job's status is
\* 'completed' or 'failed', a following results request is not answered
\* with status 'running', and no line is left in the queue.
C30_StreamEndsAfterFinalStatus ==
    (job_pc # "none" /\ ~stream_open)
    => /\ status \in {"completed", "failed"}
       /\ results_reply.status # "running"
       /\ log_queue = <<>>

====
